---- MODULE Spec2Model ----
(***************************************************************************)
(* Local data store of the health tracker (src/unnamed/part_001): the      *)
(* AsyncStorage-backed record managers, the weight-progress summary and    *)
(* the achievement / user-stats recomputation; and the dashboard screen    *)
(* (src/frontend/app/index.tsx) with its requests to the backend.          *)
(*                                                                         *)
(* Conventions of the model                                                *)
(*   - an ISO date string 'YYYY-MM-DD' is the number of its day; a Date    *)
(*     (an instant) is a number of hours since the start of day 0 in UTC;  *)
(*   - a weight is a number of tenths of a kilogram (80.0 kg = 800), a     *)
(*     value with two decimals a number of hundredths;                     *)
(*   - a JSON object is a function on its keys, so that an optional field  *)
(*     is a key that may be missing; null is the empty sequence and a      *)
(*     non-null optional value x is <<x>>.                                 *)
(***************************************************************************)
EXTENDS Integers, Sequences, FiniteSets, TLC

VARIABLES
    now,      \* the wall clock: hours since the start of day 0, UTC
    tz,       \* the device's time zone (fixed for a run)
    store,    \* AsyncStorage: a function from the keys present to their values
    calls,    \* createGoal calls in flight: caller -> what it read so far
    ret,      \* the last completed operation: its name, arguments and result
    ui,       \* the dashboard screen: its platform, loading flag and dashboardData
    net,      \* the dashboard's requests in flight, in the order they were issued
    remote    \* the records of the selected date held by the backend

vars == <<now, tz, store, calls, ret, ui, net, remote>>

-----------------------------------------------------------------------------
(* Bounds of the model *)

\* days 0..MaxDay exist; the clock stops at the end of day MaxDay
MaxDay == 7
\* the stored goals list holds at most MaxGoals goals
MaxGoals == 3
\* getWeightProgress is asked for windows of 1..MaxWindow days
MaxWindow == 7
\* weight entries stored while the weight progress is examined
MaxEntries == 3

Days == 0..MaxDay
\* two callers of createGoal, whose calls may overlap
Callers == {1, 2}

-----------------------------------------------------------------------------
(* Generic helpers *)

Max(a, b) == IF a >= b THEN a ELSE b
Min(a, b) == IF a <= b THEN a ELSE b

Null == << >>
Some(x) == << x >>

\* { ...a, ...b }: the keys of both, b's value where both have the key
Spread(a, b) ==
    [k \in (DOMAIN a) \cup (DOMAIN b) |-> IF k \in DOMAIN b THEN b[k] ELSE a[k]]

\* Number.prototype.toFixed rounds to the nearest, a tie away from zero:
\* the integer nearest to num / den (den > 0)
RoundDiv(num, den) ==
    IF num >= 0 THEN (2 * num + den) \div (2 * den)
    ELSE -((2 * (-num) + den) \div (2 * den))

-----------------------------------------------------------------------------
(* Date: UTC parsing and formatting, local-time getDate / setDate *)

\* A time zone: UTC offset `before` (hours) up to the instant `at`, `after`
\* from then on (one daylight-saving transition inside the modelled days).
TransitionDay == (MaxDay \div 2) + 1

Zones ==
    { [name |-> "UTC",         before |-> 0,  after |-> 0,  at |-> 0],
      [name |-> "Berlin-fall", before |-> 2,  after |-> 1,  at |-> TransitionDay * 24 + 1],
      [name |-> "Berlin-spring", before |-> 1, after |-> 2, at |-> TransitionDay * 24 + 1],
      [name |-> "NewYork-fall", before |-> -4, after |-> -5, at |-> TransitionDay * 24 + 6] }

UTCZone == CHOOSE z \in Zones : z.name = "UTC"

\* new Date('YYYY-MM-DD'): a date-only ISO string is midnight UTC of that day
DateOfISO(iso) == iso * 24
\* d.toISOString().split('T')[0]: the UTC day of the instant
ISOOfDate(t) == t \div 24

\* LocalTime(t) of ECMAScript: the instant as local wall-clock hours
LocalTime(t) == t + (IF t < tz.at THEN tz.before ELSE tz.after)
\* UTC(local) of ECMAScript: the instant of a local wall-clock time; a local
\* time that occurs twice or not at all takes the offset before the transition
UTCOfLocal(l) ==
    IF l - tz.before >= tz.at /\ l - tz.after >= tz.at THEN l - tz.after
    ELSE l - tz.before

\* d.setDate(d.getDate() - k): the local calendar day moves back k days and
\* the local time of day is kept
SetDateBack(t, k) == UTCOfLocal(LocalTime(t) - 24 * k)

todayISO == ISOOfDate(now)

-----------------------------------------------------------------------------
(* Storage keys and the store adapter *)

\* (mutant) the saved messages are kept under the key of the settings
KShared ==
    [ PILLS |-> "db_pills", DRINKS |-> "db_drinks", WEIGHTS |-> "db_weights",
      GOALS |-> "db_goals", REMINDERS |-> "db_reminders",
      SETTINGS |-> "db_settings", SAVED_MSGS |-> "db_settings",
      USER_STATS |-> "db_user_stats", ACHIEVEMENTS |-> "db_achievements" ]

K == [ PILLS |-> "db_pills", DRINKS |-> "db_drinks", WEIGHTS |-> "db_weights",
       GOALS |-> "db_goals", REMINDERS |-> "db_reminders",
       SETTINGS |-> "db_settings", SAVED_MSGS |-> "db_saved_messages",
       USER_STATS |-> "db_user_stats", ACHIEVEMENTS |-> "db_achievements" ]

\* `${prefix}_${Date.now()}_${random}`: the prefix and the clock; the six
\* random digits only tell apart ids minted in the same millisecond
genId(prefix) == <<prefix, now>>

\* getJSON: the stored value, the fallback when the key is absent.  setJSON
\* is the only writer, so a stored text is always valid JSON.
getJSON(key, fallback) == IF key \in DOMAIN store THEN store[key] ELSE fallback

\* setJSON: the store with the value of `key` replaced
setJSON(s, key, value) ==
    [k \in (DOMAIN s) \cup {key} |-> IF k = key THEN value ELSE s[k]]

EmptyMap == [d \in {} |-> Null]
EmptyStore == [k \in {} |-> Null]

Idle == [pc |-> "idle"]

-----------------------------------------------------------------------------
(* The store adapter at the level of the stored text: AsyncStorage holds   *)
(* one text per key, a text is the sequence of its characters.  The other  *)
(* sections keep in `store` the values themselves, which is what getJSON   *)
(* reads back from the texts that setJSON writes.                          *)

\* a JSON value carries its type; a string is the sequence of its characters,
\* an object the sequence of its <<key, value>> members in insertion order
JNull == [t |-> "null"]
JBool(b) == [t |-> "boolean", b |-> b]
JNum(n) == [t |-> "number", n |-> n]
JStr(s) == [t |-> "string", s |-> s]
JArr(els) == [t |-> "array", els |-> els]
JObj(members) == [t |-> "object", members |-> members]

Digits == <<"0", "1", "2", "3", "4", "5", "6", "7", "8", "9">>
Quote == "\""
Backslash == "\\"

\* the decimal digits of a natural number
RECURSIVE NatText(_)
NatText(n) ==
    IF n < 10 THEN <<Digits[n + 1]>>
    ELSE NatText(n \div 10) \o <<Digits[(n % 10) + 1]>>

NumberText(n) == IF n < 0 THEN <<"-">> \o NatText(0 - n) ELSE NatText(n)

\* a string's characters with " and \ escaped
RECURSIVE Escaped(_)
Escaped(s) ==
    IF s = << >> THEN << >>
    ELSE (IF Head(s) \in {Quote, Backslash} THEN <<Backslash, Head(s)>> ELSE <<Head(s)>>)
         \o Escaped(Tail(s))

StringText(s) == <<Quote>> \o Escaped(s) \o <<Quote>>

\* the texts separated by commas
RECURSIVE Joined(_)
Joined(texts) ==
    IF texts = << >> THEN << >>
    ELSE IF Len(texts) = 1 THEN texts[1]
    ELSE texts[1] \o <<",">> \o Joined(Tail(texts))

\* JSON.stringify(v): the text of v, without white space
RECURSIVE stringify(_)
stringify(v) ==
    CASE v.t = "null" -> <<"n", "u", "l", "l">>
      [] v.t = "boolean" -> IF v.b THEN <<"t", "r", "u", "e">> ELSE <<"f", "a", "l", "s", "e">>
      [] v.t = "number" -> NumberText(v.n)
      [] v.t = "string" -> StringText(v.s)
      [] v.t = "array" ->
            <<"[">> \o Joined([i \in DOMAIN v.els |-> stringify(v.els[i])]) \o <<"]">>
      [] v.t = "object" ->
            <<"{">> \o Joined([i \in DOMAIN v.members |->
                                 StringText(v.members[i][1]) \o <<":">>
                                 \o stringify(v.members[i][2])])
            \o <<"}">>

\* the outcome of parsing a prefix of a text: the value and the rest of the
\* text, or a failure (SyntaxError)
Failed == [ok |-> FALSE]
Parsed(value, rest) == [ok |-> TRUE, value |-> value, rest |-> rest]
StartsWith(text, prefix) ==
    Len(text) >= Len(prefix) /\ SubSeq(text, 1, Len(prefix)) = prefix
Drop(text, n) == SubSeq(text, n + 1, Len(text))
IsDigit(c) == \E i \in DOMAIN Digits : Digits[i] = c
DigitValue(c) == (CHOOSE i \in DOMAIN Digits : Digits[i] = c) - 1

\* the characters of a string up to its closing quote
RECURSIVE ParseChars(_, _)
ParseChars(text, s) ==
    IF text = << >> THEN Failed
    ELSE IF Head(text) = Quote THEN Parsed(s, Tail(text))
    ELSE IF Head(text) = Backslash
         THEN IF Len(text) >= 2 /\ text[2] \in {Quote, Backslash}
              THEN ParseChars(Drop(text, 2), Append(s, text[2]))
              ELSE Failed
    ELSE ParseChars(Tail(text), Append(s, Head(text)))

\* a number: 0, or a digit other than 0 followed by digits
RECURSIVE ParseDigits(_, _)
ParseDigits(text, n) ==
    IF text # << >> /\ IsDigit(Head(text))
    THEN ParseDigits(Tail(text), 10 * n + DigitValue(Head(text)))
    ELSE Parsed(n, text)

ParseNat(text) ==
    IF text = << >> \/ ~IsDigit(Head(text)) THEN Failed
    ELSE IF Head(text) = "0" THEN Parsed(0, Tail(text))
    ELSE ParseDigits(text, 0)

\* obj[key] = value on the members of an object
SetMember(members, key, value) ==
    IF \E i \in DOMAIN members : members[i][1] = key
    THEN [i \in DOMAIN members |->
            IF members[i][1] = key THEN <<key, value>> ELSE members[i]]
    ELSE Append(members, <<key, value>>)

\* one JSON value at the start of the text
RECURSIVE ParseValue(_)
RECURSIVE ParseElements(_, _)
RECURSIVE ParseMembers(_, _)

ParseValue(text) ==
    IF text = << >> THEN Failed
    ELSE IF StartsWith(text, <<"n", "u", "l", "l">>) THEN Parsed(JNull, Drop(text, 4))
    ELSE IF StartsWith(text, <<"t", "r", "u", "e">>) THEN Parsed(JBool(TRUE), Drop(text, 4))
    ELSE IF StartsWith(text, <<"f", "a", "l", "s", "e">>) THEN Parsed(JBool(FALSE), Drop(text, 5))
    ELSE IF Head(text) = Quote
         THEN LET r == ParseChars(Tail(text), << >>)
              IN IF r.ok THEN Parsed(JStr(r.value), r.rest) ELSE Failed
    ELSE IF Head(text) = "-"
         THEN LET r == ParseNat(Tail(text))
              IN IF r.ok THEN Parsed(JNum(0 - r.value), r.rest) ELSE Failed
    ELSE IF IsDigit(Head(text))
         THEN LET r == ParseNat(text)
              IN Parsed(JNum(r.value), r.rest)
    ELSE IF Head(text) = "["
         THEN IF StartsWith(text, <<"[", "]">>) THEN Parsed(JArr(<< >>), Drop(text, 2))
              ELSE ParseElements(Tail(text), << >>)
    ELSE IF Head(text) = "{"
         THEN IF StartsWith(text, <<"{", "}">>) THEN Parsed(JObj(<< >>), Drop(text, 2))
              ELSE ParseMembers(Tail(text), << >>)
    ELSE Failed

\* the elements of an array after its opening bracket
ParseElements(text, els) ==
    LET r == ParseValue(text)
    IN IF ~r.ok \/ r.rest = << >> THEN Failed
       ELSE IF Head(r.rest) = "]" THEN Parsed(JArr(Append(els, r.value)), Tail(r.rest))
       ELSE IF Head(r.rest) = "," THEN ParseElements(Tail(r.rest), Append(els, r.value))
       ELSE Failed

\* the members of an object after its opening brace
ParseMembers(text, members) ==
    IF text = << >> \/ Head(text) # Quote THEN Failed
    ELSE LET k == ParseChars(Tail(text), << >>)
         IN IF ~k.ok \/ k.rest = << >> \/ Head(k.rest) # ":" THEN Failed
            ELSE LET r == ParseValue(Tail(k.rest))
                     next == SetMember(members, k.value, r.value)
                 IN IF ~r.ok \/ r.rest = << >> THEN Failed
                    ELSE IF Head(r.rest) = "}" THEN Parsed(JObj(next), Tail(r.rest))
                    ELSE IF Head(r.rest) = "," THEN ParseMembers(Tail(r.rest), next)
                    ELSE Failed

\* JSON.parse(text): the value when the whole text is one JSON value
JSONparse(text) ==
    LET r == ParseValue(text)
    IN IF r.ok /\ r.rest = << >> THEN [ok |-> TRUE, value |-> r.value] ELSE Failed

\* (mutant) a decoded value that is falsy is replaced by the fallback
DecodeFalsyAsFallback(raw, fallback) ==
    IF raw = Null \/ raw[1] = << >> THEN fallback
    ELSE LET r == JSONparse(raw[1])
         IN IF r.ok /\ r.value \notin {JNull, JBool(FALSE), JNum(0), JStr(<< >>)}
            THEN r.value ELSE fallback

\* if (!raw) return fallback; try { return JSON.parse(raw) } catch { return fallback }
Decode(raw, fallback) ==
    IF raw = Null \/ raw[1] = << >> THEN fallback
    ELSE LET r == JSONparse(raw[1])
         IN IF r.ok THEN r.value ELSE fallback

\* AsyncStorage.getItem(key): the text stored, null when there is none
getItem(key) == IF key \in DOMAIN store THEN Some(store[key]) ELSE Null

\* getJSON(key, fallback); `after` is the setJSON completed just before, if any
getJSONText(key, fallback) ==
    /\ ret' = [op |-> "getJSON", key |-> key, fallback |-> fallback,
               result |-> Decode(getItem(key), fallback),
               after |-> IF ret.op = "setJSON"
                         THEN Some([key |-> ret.key, value |-> ret.value])
                         ELSE Null]
    /\ UNCHANGED <<now, tz, store, calls, ui, net, remote>>

\* setJSON(key, value)
setJSONText(key, value) ==
    /\ store' = setJSON(store, key, stringify(value))
    /\ ret' = [op |-> "setJSON", key |-> key, value |-> value]
    /\ UNCHANGED <<now, tz, calls, ui, net, remote>>

-----------------------------------------------------------------------------
(* Goals *)

\* the payload of a goal (goal_type, the weights and the dates) is stored as
\* given and never read by the store: one goal_type stands for it
GoalTypes == {"fixed_weight"}

\* the arguments createGoal accepts: is_active is optional
GoalArgs ==
    [goal_type : GoalTypes] \cup [goal_type : GoalTypes, is_active : BOOLEAN]

getGoals == getJSON(K.GOALS, << >>)

\* (mutant) the forEach that deactivates the others is left out
DeactivatedNone(goals) == goals

\* goals.forEach(g => g.is_active = false)
Deactivated(goals) == [i \in DOMAIN goals |-> [goals[i] EXCEPT !.is_active = FALSE]]

\* { id: genId('goal'), is_active: true, ...goal }
NewGoal(goal) == Spread([id |-> genId("goal"), is_active |-> TRUE], goal)

\* createGoal up to the end of `await getGoals()`: the list is read
createGoalRead(c, goal) ==
    /\ calls[c].pc = "idle"
    /\ calls' = [calls EXCEPT ![c] = [pc |-> "read", goals |-> getGoals, goal |-> goal]]
    /\ UNCHANGED <<now, tz, store, ret, ui, net, remote>>

\* createGoal from there on: the others are deactivated in the list that was
\* read, the new goal is pushed and the whole list is written
createGoalWrite(c) ==
    /\ calls[c].pc = "read"
    /\ Len(calls[c].goals) < MaxGoals
    /\ LET newGoal == NewGoal(calls[c].goal)
           goals == Append(Deactivated(calls[c].goals), newGoal)
       IN /\ store' = setJSON(store, K.GOALS, goals)
          /\ ret' = [op |-> "createGoal", goal |-> calls[c].goal,
                     stale |-> (calls[c].goals # getGoals), result |-> newGoal]
    /\ calls' = [calls EXCEPT ![c] = Idle]
    /\ UNCHANGED <<now, tz, ui, net, remote>>

\* goals.find(g => g.is_active) || null
ActiveGoal(goals) ==
    IF \E i \in DOMAIN goals : goals[i].is_active
    THEN Some(goals[CHOOSE i \in DOMAIN goals :
                 /\ goals[i].is_active
                 /\ \A j \in DOMAIN goals : goals[j].is_active => i <= j])
    ELSE Null

\* map[date] || null
Lookup(map, date) == IF date \in DOMAIN map THEN Some(map[date]) ELSE Null

getDashboard(date) ==
    /\ ret' = [op |-> "getDashboard", date |-> date,
               result |-> [date |-> date,
                           pills |-> Lookup(getJSON(K.PILLS, EmptyMap), date),
                           drinks |-> Lookup(getJSON(K.DRINKS, EmptyMap), date),
                           weight |-> Lookup(getJSON(K.WEIGHTS, EmptyMap), date),
                           active_goal |-> ActiveGoal(getJSON(K.GOALS, << >>))]]
    /\ UNCHANGED <<now, tz, store, calls, ui, net, remote>>

\* time passes: the clock moves on by h hours, not beyond day lastDay
Tick(h, lastDay) ==
    /\ ISOOfDate(now + h) <= lastDay
    /\ now' = now + h
    /\ UNCHANGED <<tz, store, calls, ret, ui, net, remote>>

-----------------------------------------------------------------------------
(* Pills, drinks and weights: one record per date *)

DrinkTypes == {"wasser", "abnehmkaffee", "ingwer_knoblauch_tee", "wasserkur", "kaffee"}

\* { wasser:0, abnehmkaffee:0, ingwer_knoblauch_tee:0, wasserkur:0, kaffee:0 }
NoDrinks == [t \in DrinkTypes |-> 0]

\* (mutant) the collection is replaced by the one record written
PutAlone(map, date, value) == [d \in {date} |-> value]

\* map[date] = value
Put(map, date, value) ==
    [d \in (DOMAIN map) \cup {date} |-> IF d = date THEN value ELSE map[d]]

\* whether this call repeats the call completed just before it
Again(op) == [f \in (DOMAIN ret) \ {"again", "result"} |-> ret[f]] = op

updatePills(date, updates) ==
    LET pillsByDate == getJSON(K.PILLS, EmptyMap)
        existing == IF date \in DOMAIN pillsByDate THEN pillsByDate[date]
                    ELSE [id |-> genId("pill"), date |-> date,
                          morning_taken |-> FALSE, evening_taken |-> FALSE]
        next == Spread(existing, updates)
    IN /\ store' = setJSON(store, K.PILLS, Put(pillsByDate, date, next))
       /\ ret' = [op |-> "updatePills", date |-> date, updates |-> updates,
                  result |-> next]
       /\ UNCHANGED <<now, tz, calls, ui, net, remote>>

\* (mutant) the count is stored as given
ClampNone(count) == count

\* Math.max(0, count)
Clamp(count) == Max(0, count)

updateDrink(date, drink_type, count) ==
    LET drinksByDate == getJSON(K.DRINKS, EmptyMap)
        existing == IF date \in DOMAIN drinksByDate THEN drinksByDate[date]
                    ELSE [id |-> genId("drink"), date |-> date, drinks |-> NoDrinks]
        next == [existing EXCEPT !.drinks[drink_type] = Clamp(count)]
        op == [op |-> "updateDrink", date |-> date, drink_type |-> drink_type,
               count |-> count]
    IN /\ store' = setJSON(store, K.DRINKS, Put(drinksByDate, date, next))
       /\ ret' = Spread(op, [again |-> Again(op), result |-> next])
       /\ UNCHANGED <<now, tz, calls, ui, net, remote>>

addWeight(date, weight) ==
    LET weightsByDate == getJSON(K.WEIGHTS, EmptyMap)
        entry == [id |-> genId("weight"), date |-> date, weight |-> weight]
    IN /\ store' = setJSON(store, K.WEIGHTS, Put(weightsByDate, date, entry))
       /\ ret' = [op |-> "addWeight", date |-> date, weight |-> weight,
                  result |-> entry]
       /\ UNCHANGED <<now, tz, calls, ui, net, remote>>

\* the entries of a set, ascending by the timestamp of their date
RECURSIVE SortByDate(_)
SortByDate(S) ==
    IF S = {} THEN << >>
    ELSE LET first == CHOOSE w \in S :
                         \A v \in S : DateOfISO(w.date) <= DateOfISO(v.date)
         IN <<first>> \o SortByDate(S \ {first})

\* (mutant) the end boundary is excluded
getWeightRangeBeforeEnd(startISO, endISO) ==
    LET weightsByDate == getJSON(K.WEIGHTS, EmptyMap)
        values == {weightsByDate[d] : d \in DOMAIN weightsByDate}
    IN SortByDate({w \in values : /\ DateOfISO(w.date) >= DateOfISO(startISO)
                                   /\ DateOfISO(w.date) < DateOfISO(endISO)})

\* the stored entries whose date lies between the two dates, ascending
getWeightRange(startISO, endISO) ==
    LET weightsByDate == getJSON(K.WEIGHTS, EmptyMap)
        start == DateOfISO(startISO)
        end == DateOfISO(endISO)
        values == {weightsByDate[d] : d \in DOMAIN weightsByDate}
    IN SortByDate({w \in values : /\ DateOfISO(w.date) >= start
                                   /\ DateOfISO(w.date) <= end})

\* a call of getWeightRange, which only reads
getWeightRangeCalled(startISO, endISO) ==
    /\ ret' = [op |-> "getWeightRange", startISO |-> startISO, endISO |-> endISO,
               result |-> getWeightRange(startISO, endISO)]
    /\ UNCHANGED <<now, tz, store, calls, ui, net, remote>>

\* parseFloat(x.toFixed(1)) of num/den tenths: the nearest tenth
toFixed1(num, den) == RoundDiv(num, den)
\* parseFloat(x.toFixed(2)) of num/den tenths: the nearest hundredth
toFixed2(num, den) == RoundDiv(10 * num, den)

\* the first day of the window: start.setDate(end.getDate() - days + 1)
WindowStart(days) == ISOOfDate(SetDateBack(DateOfISO(todayISO), days - 1))

\* the divisor of average_daily_change: the entries less one
AverageDivisor(data, days) == Len(data) - 1

\* the summary of getWeightProgress over the entries `data`
Summary(data, days) ==
    [ total_days |-> days,
      entries_found |-> Len(data),
      total_change |-> IF Len(data) > 1
                       THEN toFixed1(data[Len(data)].weight - data[1].weight, 1)
                       ELSE 0,
      start_weight |-> IF Len(data) > 0 THEN Some(data[1].weight) ELSE Null,
      current_weight |-> IF Len(data) > 0 THEN Some(data[Len(data)].weight) ELSE Null,
      average_daily_change |->
          IF Len(data) > 1
          THEN toFixed2(data[Len(data)].weight - data[1].weight,
                        AverageDivisor(data, days))
          ELSE 0 ]

getWeightProgress(days) ==
    LET end == DateOfISO(todayISO)
        data == getWeightRange(WindowStart(days), ISOOfDate(end))
        progress == [idx \in DOMAIN data |->
                       [date |-> data[idx].date, weight |-> data[idx].weight,
                        difference |-> IF idx = 1 THEN 0
                                       ELSE toFixed1(data[idx].weight - data[idx - 1].weight, 1)]]
    IN /\ ret' = [op |-> "getWeightProgress", days |-> days,
                  result |-> [progress |-> progress, summary |-> Summary(data, days)]]
       /\ UNCHANGED <<now, tz, store, calls, ui, net, remote>>

-----------------------------------------------------------------------------
(* Achievements and user stats *)

\* the catalog; the display fields (title, description, icon, color) are
\* never read by the store and are left out
baseAchievements ==
    << [id |-> "a1", badge_type |-> "first_weight", xp_reward |-> 50,
        requirement_count |-> 1, current_count |-> 0, is_unlocked |-> FALSE],
       [id |-> "a2", badge_type |-> "seven_days", xp_reward |-> 100,
        requirement_count |-> 7, current_count |-> 0, is_unlocked |-> FALSE],
       [id |-> "a3", badge_type |-> "water_10", xp_reward |-> 120,
        requirement_count |-> 10, current_count |-> 0, is_unlocked |-> FALSE] >>

\* the loop `for (let i = 0; i < 365; i++)` of the streak
StreakLimit == 365
\* Math.floor(total_xp / 500) + 1
XpPerLevel == 500

\* (mutant) the stamp is renewed whenever the achievement is found unlocked
StampAlways(a) == IF a.is_unlocked THEN Spread(a, [unlocked_at |-> now]) ELSE a

\* if (a.is_unlocked && !a.unlocked_at) a.unlocked_at = new Date().toISOString()
Stamp(a) ==
    IF a.is_unlocked /\ "unlocked_at" \notin DOMAIN a
    THEN Spread(a, [unlocked_at |-> now])
    ELSE a

\* (mutant) an achievement found unlocked stays unlocked
ProgressSticky(a, count, unlocked) ==
    Stamp([a EXCEPT !.current_count = count, !.is_unlocked = a.is_unlocked \/ unlocked])

\* a with its progress set to count and unlocked as given
Progress(a, count, unlocked) ==
    Stamp([a EXCEPT !.current_count = count, !.is_unlocked = unlocked])

\* (mutant) the water counter of the latest day with a drink record
GlassesOfLatestDay(drinksByDate) ==
    IF DOMAIN drinksByDate = {} THEN 0
    ELSE LET latest == CHOOSE d \in DOMAIN drinksByDate :
                           \A e \in DOMAIN drinksByDate : e <= d
         IN drinksByDate[latest].drinks["wasser"]

\* today?.drinks?.wasser || 0
Glasses(drinksByDate) ==
    IF todayISO \in DOMAIN drinksByDate THEN drinksByDate[todayISO].drinks["wasser"]
    ELSE 0

\* (mutant) water_10 unlocks only above its requirement
WaterProgressStrict(a, glasses) == Progress(a, glasses, glasses > a.requirement_count)

\* the body of ach.forEach for the badge water_10
WaterProgress(a, glasses) == Progress(a, glasses, glasses >= a.requirement_count)

\* (mutant) seven_days unlocks only above its requirement
SevenDaysStrict(a, weightEntriesTotal) ==
    LET count == Min(7, weightEntriesTotal)
    IN Progress(a, count, count > a.requirement_count)

\* (mutant) seven_days counts every entry, without the cap at 7
SevenDaysUncapped(a, weightEntriesTotal) ==
    Progress(a, weightEntriesTotal, weightEntriesTotal >= a.requirement_count)

\* the body of ach.forEach for the badge seven_days
SevenDaysProgress(a, weightEntriesTotal) ==
    LET count == Min(7, weightEntriesTotal)
    IN Progress(a, count, count >= a.requirement_count)

\* (mutant) first_weight counts 1 also without any entry
FirstWeightAlways(a, weightEntriesTotal) == Progress(a, 1, 1 >= a.requirement_count)

\* the body of ach.forEach for the badge first_weight
FirstWeightProgress(a, weightEntriesTotal) ==
    LET count == IF weightEntriesTotal > 0 THEN 1 ELSE 0
    IN Progress(a, count, count >= a.requirement_count)

\* the body of ach.forEach
UpdateProgress(a, weightEntriesTotal, drinksByDate) ==
    IF a.badge_type = "first_weight" THEN FirstWeightProgress(a, weightEntriesTotal)
    ELSE IF a.badge_type = "seven_days" THEN SevenDaysProgress(a, weightEntriesTotal)
    ELSE IF a.badge_type = "water_10" THEN WaterProgress(a, Glasses(drinksByDate))
    ELSE a

\* (mutant) the rewards of all achievements, unlocked or not
RECURSIVE TotalXpOfAll(_)
TotalXpOfAll(ach) ==
    IF ach = << >> THEN 0 ELSE Head(ach).xp_reward + TotalXpOfAll(Tail(ach))

\* (mutant) the reward of an unlocked achievement counted once per unit of
\* its progress
RECURSIVE TotalXpPerCount(_)
TotalXpPerCount(ach) ==
    IF ach = << >> THEN 0
    ELSE (IF Head(ach).is_unlocked THEN Head(ach).xp_reward * Head(ach).current_count
          ELSE 0) + TotalXpPerCount(Tail(ach))

\* ach.filter(a => a.is_unlocked).reduce((sum, a) => sum + a.xp_reward, 0)
RECURSIVE TotalXp(_)
TotalXp(ach) ==
    IF ach = << >> THEN 0
    ELSE (IF Head(ach).is_unlocked THEN Head(ach).xp_reward ELSE 0) + TotalXp(Tail(ach))

\* the streak loop from step i on: the days with an entry, walking back from
\* today with setDate, up to the first day without one
RECURSIVE StreakFrom(_, _)
StreakFrom(i, weightsByDate) ==
    IF /\ i < StreakLimit
       /\ ISOOfDate(SetDateBack(DateOfISO(todayISO), i)) \in DOMAIN weightsByDate
    THEN 1 + StreakFrom(i + 1, weightsByDate)
    ELSE 0

\* reduce over the pill records: morning_taken and evening_taken count 1 each
RECURSIVE PillsTaken(_, _)
PillsTaken(pillsByDate, dates) ==
    IF dates = {} THEN 0
    ELSE LET d == CHOOSE x \in dates : TRUE
         IN (IF pillsByDate[d].morning_taken THEN 1 ELSE 0)
            + (IF pillsByDate[d].evening_taken THEN 1 ELSE 0)
            + PillsTaken(pillsByDate, dates \ {d})

\* what computeAchievementsAndStats computes from what it has read: the
\* stored catalog with its progress updated, and the stats
Compute(weightsByDate, drinksByDate, pillsByDate, stored) ==
    LET weightEntriesTotal == Cardinality(DOMAIN weightsByDate)
        ach == [i \in DOMAIN stored |->
                  UpdateProgress(stored[i], weightEntriesTotal, drinksByDate)]
        total_xp == TotalXp(ach)
        current_level == Max(1, (total_xp \div XpPerLevel) + 1)
        streak == StreakFrom(0, weightsByDate)
        stats == [id |-> "user_stats", total_xp |-> total_xp,
                  current_level |-> current_level,
                  current_streak_days |-> streak, longest_streak |-> streak,
                  pills_taken_total |-> PillsTaken(pillsByDate, DOMAIN pillsByDate),
                  water_goals_achieved |-> 0,
                  weight_entries_total |-> weightEntriesTotal,
                  perfect_days |-> 0]
    IN [achievements |-> ach, stats |-> stats]

\* the four reads of computeAchievementsAndStats and what it computes from them
Recomputed ==
    Compute(getJSON(K.WEIGHTS, EmptyMap), getJSON(K.DRINKS, EmptyMap),
            getJSON(K.PILLS, EmptyMap), getJSON(K.ACHIEVEMENTS, baseAchievements))

computeAchievementsAndStats ==
    /\ store' = setJSON(setJSON(store, K.ACHIEVEMENTS, Recomputed.achievements),
                        K.USER_STATS, Recomputed.stats)
    /\ ret' = [op |-> "computeAchievementsAndStats", today |-> todayISO,
               result |-> Recomputed]
    /\ UNCHANGED <<now, tz, calls, ui, net, remote>>

\* (mutant) a write that reports its failure after it has stored the value
setJSONFailsAfterStoring(s, key, value) == setJSON(s, key, value)

\* setJSON whose AsyncStorage.setItem rejects: nothing is stored
setJSONFails(s, key, value) == s

\* what a call that ends with the rejection of its write leaves in ret; before
\* is the store as the call found it
Failure(op) == Spread(op, [error |-> "setItem", before |-> store])

\* updatePills whose write fails
updatePillsFails(date, updates) ==
    LET pillsByDate == getJSON(K.PILLS, EmptyMap)
        existing == IF date \in DOMAIN pillsByDate THEN pillsByDate[date]
                    ELSE [id |-> genId("pill"), date |-> date,
                          morning_taken |-> FALSE, evening_taken |-> FALSE]
        next == Spread(existing, updates)
    IN /\ store' = setJSONFails(store, K.PILLS, Put(pillsByDate, date, next))
       /\ ret' = Failure([op |-> "updatePills", date |-> date, updates |-> updates])
       /\ UNCHANGED <<now, tz, calls, ui, net, remote>>

\* updateDrink whose write fails
updateDrinkFails(date, drink_type, count) ==
    LET drinksByDate == getJSON(K.DRINKS, EmptyMap)
        existing == IF date \in DOMAIN drinksByDate THEN drinksByDate[date]
                    ELSE [id |-> genId("drink"), date |-> date, drinks |-> NoDrinks]
        next == [existing EXCEPT !.drinks[drink_type] = Clamp(count)]
    IN /\ store' = setJSONFails(store, K.DRINKS, Put(drinksByDate, date, next))
       /\ ret' = Failure([op |-> "updateDrink", date |-> date,
                          drink_type |-> drink_type, count |-> count])
       /\ UNCHANGED <<now, tz, calls, ui, net, remote>>

\* addWeight whose write fails
addWeightFails(date, weight) ==
    LET weightsByDate == getJSON(K.WEIGHTS, EmptyMap)
        entry == [id |-> genId("weight"), date |-> date, weight |-> weight]
    IN /\ store' = setJSONFails(store, K.WEIGHTS, Put(weightsByDate, date, entry))
       /\ ret' = Failure([op |-> "addWeight", date |-> date, weight |-> weight])
       /\ UNCHANGED <<now, tz, calls, ui, net, remote>>

\* computeAchievementsAndStats whose first (write = 1) or second (write = 2)
\* write fails: the second is attempted after the first has been stored
computeAchievementsAndStatsFails(write) ==
    /\ store' = IF write = 1
                THEN setJSONFails(store, K.ACHIEVEMENTS, Recomputed.achievements)
                ELSE setJSONFails(setJSON(store, K.ACHIEVEMENTS, Recomputed.achievements),
                                  K.USER_STATS, Recomputed.stats)
    /\ ret' = Failure([op |-> "computeAchievementsAndStats", today |-> todayISO,
                       write |-> write, achievements |-> Recomputed.achievements])
    /\ UNCHANGED <<now, tz, calls, ui, net, remote>>

\* what getAchievements() returns
getAchievements == getJSON(K.ACHIEVEMENTS, baseAchievements)

\* what getUserStats() returns: the persisted stats, or all counters at their
\* start values when no recomputation has persisted any
getUserStats ==
    getJSON(K.USER_STATS,
            [id |-> "user_stats", total_xp |-> 0, current_level |-> 1,
             current_streak_days |-> 0, longest_streak |-> 0,
             pills_taken_total |-> 0, water_goals_achieved |-> 0,
             weight_entries_total |-> 0, perfect_days |-> 0])

-----------------------------------------------------------------------------
(* Reminders, settings and saved messages *)

getReminders == getJSON(K.REMINDERS, << >>)

\* list.findIndex(x => x.id === id), counting from 1: 0 when there is none
findIndex(list, id) ==
    IF \E i \in DOMAIN list : list[i].id = id
    THEN CHOOSE i \in DOMAIN list :
            /\ list[i].id = id
            /\ \A j \in DOMAIN list : list[j].id = id => i <= j
    ELSE 0

\* list.filter(x => x.id !== id)
RECURSIVE filterOut(_, _)
filterOut(list, id) ==
    IF list = << >> THEN << >>
    ELSE IF Head(list).id # id THEN <<Head(list)>> \o filterOut(Tail(list), id)
    ELSE filterOut(Tail(list), id)

createReminder(rem) ==
    LET list == getReminders
        next == Spread([id |-> genId("rem")], rem)
    IN /\ store' = setJSON(store, K.REMINDERS, Append(list, next))
       /\ ret' = [op |-> "createReminder", rem |-> rem, result |-> next]
       /\ UNCHANGED <<now, tz, calls, ui, net, remote>>

\* the list is written only when the reminder was found; list[idx] is
\* undefined when it was not
toggleReminder(id) ==
    LET list == getReminders
        idx == findIndex(list, id)
        toggled == [list EXCEPT ![idx].is_enabled = ~list[idx].is_enabled]
    IN /\ store' = IF idx > 0 THEN setJSON(store, K.REMINDERS, toggled) ELSE store
       /\ ret' = [op |-> "toggleReminder", id |-> id,
                  result |-> IF idx > 0 THEN Some(toggled[idx]) ELSE Null]
       /\ UNCHANGED <<now, tz, calls, ui, net, remote>>

updateReminderTime(id, time) ==
    LET list == getReminders
        idx == findIndex(list, id)
        updated == [list EXCEPT ![idx].time = time]
    IN /\ store' = IF idx > 0 THEN setJSON(store, K.REMINDERS, updated) ELSE store
       /\ ret' = [op |-> "updateReminderTime", id |-> id, time |-> time,
                  result |-> IF idx > 0 THEN Some(updated[idx]) ELSE Null]
       /\ UNCHANGED <<now, tz, calls, ui, net, remote>>

deleteReminder(id) ==
    /\ store' = setJSON(store, K.REMINDERS, filterOut(getReminders, id))
    /\ ret' = [op |-> "deleteReminder", id |-> id]
    /\ UNCHANGED <<now, tz, calls, ui, net, remote>>

getAppSettings ==
    getJSON(K.SETTINGS,
            [theme |-> "pink", language |-> "de", sound_enabled |-> TRUE,
             vibration_enabled |-> TRUE, analytics_enabled |-> FALSE])

updateAppSettings(patch) ==
    LET next == Spread(getAppSettings, patch)
    IN /\ store' = setJSON(store, K.SETTINGS, next)
       /\ ret' = [op |-> "updateAppSettings", patch |-> patch, result |-> next]
       /\ UNCHANGED <<now, tz, calls, ui, net, remote>>

saveMessage(item) ==
    LET list == getJSON(K.SAVED_MSGS, << >>)
        entry == Spread([id |-> genId("msg"), created_at |-> now], item)
    IN /\ store' = setJSON(store, K.SAVED_MSGS, Append(list, entry))
       /\ ret' = [op |-> "saveMessage", item |-> item, result |-> entry]
       /\ UNCHANGED <<now, tz, calls, ui, net, remote>>

deleteSavedMessageLocal(id) ==
    LET list == getJSON(K.SAVED_MSGS, << >>)
    IN /\ store' = setJSON(store, K.SAVED_MSGS, filterOut(list, id))
       /\ ret' = [op |-> "deleteSavedMessageLocal", id |-> id]
       /\ UNCHANGED <<now, tz, calls, ui, net, remote>>

-----------------------------------------------------------------------------
(* The offline responder.  A message is the sequence of its characters.    *)

UpperCase ==
    <<"A", "B", "C", "D", "E", "F", "G", "H", "I", "J", "K", "L", "M",
      "N", "O", "P", "Q", "R", "S", "T", "U", "V", "W", "X", "Y", "Z">>
LowerCase ==
    <<"a", "b", "c", "d", "e", "f", "g", "h", "i", "j", "k", "l", "m",
      "n", "o", "p", "q", "r", "s", "t", "u", "v", "w", "x", "y", "z">>

\* message.toLowerCase()
toLowerCase(text) ==
    [i \in DOMAIN text |->
        IF \E k \in DOMAIN UpperCase : UpperCase[k] = text[i]
        THEN LowerCase[CHOOSE k \in DOMAIN UpperCase : UpperCase[k] = text[i]]
        ELSE text[i]]

\* text.includes(word)
includes(text, word) ==
    \E i \in 1..(Len(text) - Len(word) + 1) : SubSeq(text, i, i + Len(word) - 1) = word

\* the keywords of the three groups
Keywords ==
    [ water |-> {<<"w", "a", "s", "s", "e", "r">>, <<"t", "r", "i", "n", "k", "e", "n">>},
      recipe |-> {<<"r", "e", "z", "e", "p", "t", "e">>, <<"r", "e", "z", "e", "p", "t">>},
      weight |-> {<<"g", "e", "w", "i", "c", "h", "t">>,
                  <<"a", "b", "n", "e", "h", "m", "e", "n">>} ]

\* the four response sentences, by their first words
Responses ==
    [ water |-> "Trinke heute", recipe |-> "Leichtes Rezept",
      weight |-> "Achte auf ein moderates Kaloriendefizit",
      generic |-> "Danke" ]

\* lower.includes(a) || lower.includes(b) for the two keywords of a group
Mentions(lower, group) == \E word \in Keywords[group] : includes(lower, word)

\* (mutant) the weight group is checked before the water group
RespondWeightFirst(message) ==
    LET lower == toLowerCase(message)
    IN IF Mentions(lower, "weight") THEN Responses.weight
       ELSE IF Mentions(lower, "water") THEN Responses.water
       ELSE IF Mentions(lower, "recipe") THEN Responses.recipe
       ELSE Responses.generic

\* the body of sendChat: the response of the first group that matches
Respond(message) ==
    LET lower == toLowerCase(message)
    IN IF Mentions(lower, "water") THEN Responses.water
       ELSE IF Mentions(lower, "recipe") THEN Responses.recipe
       ELSE IF Mentions(lower, "weight") THEN Responses.weight
       ELSE Responses.generic

sendChat(message) ==
    /\ ret' = [op |-> "sendChat", message |-> message,
               result |-> [response |-> Respond(message)]]
    /\ UNCHANGED <<now, tz, store, calls, ui, net, remote>>

-----------------------------------------------------------------------------
(* The dashboard screen (src/frontend/app/index.tsx) for its selected date. *)
(* Each handler issues a fetch and goes on when the response arrives; a    *)
(* response is ok (2xx), "status" (not 2xx) or "failed" (the fetch         *)
(* rejects).  The backend is not part of the sources: it is modelled after *)
(* its described interface, one record per kind for the selected date.     *)

MaxInFlight == 2
MaxCount == 2

Outcomes == {"ok", "status", "failed"}

\* the backend has no record of the selected date
NoRecords ==
    [wasser |-> 0, abnehmkaffee |-> 0, morning_taken |-> FALSE, weight |-> Null]

\* PUT /drinks/{date} {drink_type, count}, PUT /pills/{date} {morning_taken},
\* POST /weight {date, weight}: the record of the date with the field set
ServerWrite(req) ==
    IF req.api = "drinks" THEN [remote EXCEPT ![req.drink_type] = req.count]
    ELSE IF req.api = "pills" THEN [remote EXCEPT !.morning_taken = req.morning_taken]
    ELSE IF req.api = "weight" THEN [remote EXCEPT !.weight = Some(req.weight)]
    ELSE remote

\* GET /dashboard/{date}
ServerDashboard == remote

\* dashboardData?.drinks?.drinks[drinkType] || 0
ShownCount(drinkType) ==
    IF ui.dashboardData = Null THEN 0 ELSE ui.dashboardData[1][drinkType]

\* dashboardData?.pills?.morning_taken
ShownMorningTaken ==
    IF ui.dashboardData = Null THEN FALSE ELSE ui.dashboardData[1].morning_taken

\* net without its i-th request
Settled(i) == SubSeq(net, 1, i - 1) \o SubSeq(net, i + 1, Len(net))

\* fetchDashboardData() called by the handler of `after` (or by the screen
\* itself): one more GET in flight
fetchDashboardData(requests, after) ==
    Append(requests, [api |-> "dashboard", after |-> after])

\* a handler that only issues a request
Issue(req) ==
    /\ ~ui.loading
    /\ Len(net) < MaxInFlight
    /\ net' = Append(net, req)
    /\ UNCHANGED <<now, tz, store, calls, ret, ui, remote>>

\* Alert.alert(title, ...) unless the platform is the web
AlertUnlessWeb(title) == IF ui.platform # "web" THEN Some(title) ELSE Null

\* the response to fetchDashboardData arrives: setDashboardData on ok,
\* console.error otherwise, setLoading(false) in every case
fetchDashboardDataSettled(i, outcome) ==
    /\ i \in DOMAIN net
    /\ net[i].api = "dashboard"
    /\ ui' = [ui EXCEPT !.loading = FALSE,
                        !.dashboardData = IF outcome = "ok" THEN Some(ServerDashboard)
                                          ELSE @]
    /\ net' = Settled(i)
    /\ ret' = [op |-> "fetchDashboardData", outcome |-> outcome, alert |-> Null]
    /\ UNCHANGED <<now, tz, store, calls, remote>>

\* pull to refresh: fetchDashboardData(true)
onRefresh == Issue([api |-> "dashboard", after |-> "refresh"])

\* updateDrinkCount(drinkType, increment) up to its fetch
updateDrinkCount(drinkType, increment) ==
    LET currentCount == ShownCount(drinkType)
        newCount == IF increment THEN currentCount + 1 ELSE Max(0, currentCount - 1)
    IN /\ newCount <= MaxCount
       /\ Issue([api |-> "drinks", handler |-> "updateDrinkCount",
                 drink_type |-> drinkType, count |-> newCount,
                 increment |-> increment])

\* updateSpecialDrink(drinkType) up to its fetch: toggle between 0 and 1
updateSpecialDrink(drinkType) ==
    LET currentValue == ShownCount(drinkType)
        newValue == IF currentValue > 0 THEN 0 ELSE 1
    IN Issue([api |-> "drinks", handler |-> "updateSpecialDrink",
              drink_type |-> drinkType, count |-> newValue])

\* the rest of updateDrinkCount and updateSpecialDrink: ok re-reads the
\* dashboard, a status other than 2xx does nothing, a rejected fetch alerts;
\* ret keeps the request and the count stored before it was answered
updateDrinkSettled(i, outcome) ==
    /\ i \in DOMAIN net
    /\ net[i].api = "drinks"
    /\ remote' = IF outcome = "ok" THEN ServerWrite(net[i]) ELSE remote
    /\ net' = IF outcome = "ok" THEN fetchDashboardData(Settled(i), "drinks")
              ELSE Settled(i)
    /\ ret' = [op |-> net[i].handler, outcome |-> outcome,
               alert |-> IF outcome = "failed" THEN Some("Fehler") ELSE Null,
               request |-> net[i], before |-> remote[net[i].drink_type]]
    /\ UNCHANGED <<now, tz, store, calls, ui>>

\* updatePillTracking('morning', !dashboardData?.pills?.morning_taken) up to
\* its fetch
updatePillTracking ==
    Issue([api |-> "pills", handler |-> "updatePillTracking",
           morning_taken |-> ~ShownMorningTaken])

\* the rest of updatePillTracking: ok re-reads the dashboard and alerts
\* 'Erfolg', a status other than 2xx does nothing, a rejected fetch alerts
updatePillTrackingSettled(i, outcome) ==
    /\ i \in DOMAIN net
    /\ net[i].api = "pills"
    /\ remote' = IF outcome = "ok" THEN ServerWrite(net[i]) ELSE remote
    /\ net' = IF outcome = "ok" THEN fetchDashboardData(Settled(i), "pills")
              ELSE Settled(i)
    /\ ret' = [op |-> net[i].handler, outcome |-> outcome,
               alert |-> IF outcome = "ok" THEN Some("Erfolg")
                         ELSE IF outcome = "failed" THEN Some("Fehler")
                         ELSE Null]
    /\ UNCHANGED <<now, tz, store, calls, ui>>

\* the texts typed into the weight field: a number and nothing
WeightTexts == {<<"8", "0">>, << >>}

\* parseFloat(text) of a text of digits, in tenths of a kilogram
parseFloat(text) == 10 * ParseDigits(text, 0).value

\* submitWeightEntry() up to its fetch; a text that is not a number alerts
\* (unless on the web) and issues nothing
submitWeightEntry(weightInput) ==
    IF weightInput # << >> /\ IsDigit(Head(weightInput))
    THEN Issue([api |-> "weight", handler |-> "submitWeightEntry",
                weight |-> parseFloat(weightInput)])
    ELSE /\ ~ui.loading
         /\ ret' = [op |-> "submitWeightEntry", outcome |-> "invalid",
                    alert |-> AlertUnlessWeb("Fehler")]
         /\ UNCHANGED <<now, tz, store, calls, ui, net, remote>>

\* the rest of submitWeightEntry: ok re-reads the dashboard and alerts
\* 'Erfolg', a status other than 2xx does nothing, a rejected fetch alerts;
\* both alerts are left out on the web
submitWeightEntrySettled(i, outcome) ==
    /\ i \in DOMAIN net
    /\ net[i].api = "weight"
    /\ remote' = IF outcome = "ok" THEN ServerWrite(net[i]) ELSE remote
    /\ net' = IF outcome = "ok" THEN fetchDashboardData(Settled(i), "weight")
              ELSE Settled(i)
    /\ ret' = [op |-> net[i].handler, outcome |-> outcome,
               alert |-> IF outcome = "ok" THEN AlertUnlessWeb("Erfolg")
                         ELSE IF outcome = "failed" THEN AlertUnlessWeb("Fehler")
                         ELSE Null]
    /\ UNCHANGED <<now, tz, store, calls, ui>>

-----------------------------------------------------------------------------
(* The date navigation of the dashboard header.  ui.selectedDate is the    *)
(* selected day; the buttons are on screen once the first read has ended.  *)

\* setSelectedDate(date): the effect on [selectedDate] re-reads the dashboard
\* when the date has changed
setSelectedDate(op, date) ==
    /\ ~ui.loading
    /\ Len(net) < MaxInFlight
    /\ ui' = [ui EXCEPT !.selectedDate = date]
    /\ net' = IF date # ui.selectedDate THEN fetchDashboardData(net, "selectedDate")
              ELSE net
    /\ ret' = [op |-> op, before |-> ui.selectedDate, today |-> todayISO]
    /\ UNCHANGED <<now, tz, store, calls, remote>>

\* nextDate.setDate(currentDate.getDate() + 1) on new Date(selectedDate),
\* then toISOString().split('T')[0]
NextStr == ISOOfDate(SetDateBack(DateOfISO(ui.selectedDate), -1))

\* currentDate.setDate(currentDate.getDate() - 1), likewise
PreviousStr == ISOOfDate(SetDateBack(DateOfISO(ui.selectedDate), 1))

navigateToNextDay ==
    setSelectedDate("navigateToNextDay",
                    IF NextStr <= todayISO THEN NextStr ELSE ui.selectedDate)

navigateToPreviousDay ==
    /\ PreviousStr >= 0
    /\ setSelectedDate("navigateToPreviousDay", PreviousStr)

navigateToToday == setSelectedDate("navigateToToday", todayISO)

-----------------------------------------------------------------------------
(* The assistant chat of the dashboard.  ui holds chatMessages, chatInput,  *)
(* chatSessionId and chatLoading; a text is the sequence of its characters; *)
(* net holds the POST /api/health-chat in flight.                           *)

MaxTranscript == 4

\* text.trim(): blanks, line breaks and tabs are taken off both ends
RECURSIVE trim(_)
trim(text) ==
  LET WhiteSpace == {" ", "\n", "\t"} IN
    IF text = << >> THEN text
    ELSE IF Head(text) \in WhiteSpace THEN trim(Tail(text))
    ELSE IF text[Len(text)] \in WhiteSpace THEN trim(SubSeq(text, 1, Len(text) - 1))
    ELSE text

\* onChangeText={setChatInput}
setChatInput(text) ==
    /\ ui' = [ui EXCEPT !.chatInput = text]
    /\ UNCHANGED <<now, tz, store, calls, ret, net, remote>>

\* (mutant) the user message is not added to the transcript
WithUserMessageDropped(messages, userMessage) == messages

\* setChatMessages(prev => [...prev, newUserMessage])
WithUserMessage(messages, userMessage) ==
    Append(messages, [message |-> userMessage, is_user |-> TRUE, timestamp |-> now])

\* sendChatMessage() up to its fetch.  The send button is disabled while
\* chatLoading; with an input that is empty after trimming the handler
\* returns at once.
sendChatMessage ==
    IF trim(ui.chatInput) = << >>
    THEN /\ ret' = [op |-> "sendChatMessage", outcome |-> "empty", alert |-> Null,
                    before |-> [ui |-> ui, net |-> net]]
         /\ UNCHANGED <<now, tz, store, calls, ui, net, remote>>
    ELSE /\ ~ui.chatLoading
         /\ Len(ui.chatMessages) + 2 <= MaxTranscript
         /\ ui' = [ui EXCEPT !.chatLoading = TRUE,
                             !.chatInput = << >>,
                             !.chatMessages = WithUserMessage(@, ui.chatInput)]
         /\ net' = Append(net, [api |-> "health-chat", message |-> ui.chatInput,
                                session_id |-> ui.chatSessionId])
         /\ UNCHANGED <<now, tz, store, calls, ret, remote>>

\* (mutant) setChatLoading(false) at the end of the try block instead of in
\* finally: a rejected fetch leaves chatLoading set
chatLoadingAtEndOfTry(outcome) == outcome = "failed"

\* finally { setChatLoading(false) }
chatLoadingFinally(outcome) == FALSE

\* the rest of sendChatMessage: ok stores the session id and adds the
\* assistant's message, a status other than 2xx adds nothing, a rejected
\* fetch alerts; producedBy records the user message of the request
sendChatMessageSettled(outcome, response) ==
    /\ net # << >>
    /\ net[1].api = "health-chat"
    /\ LET aiMessage == [message |-> response, is_user |-> FALSE, timestamp |-> now,
                         producedBy |-> net[1].message]
       IN ui' = [ui EXCEPT !.chatLoading = chatLoadingFinally(outcome),
                           !.chatSessionId = IF outcome = "ok" THEN Some("session")
                                             ELSE @,
                           !.chatMessages = IF outcome = "ok" THEN Append(@, aiMessage)
                                            ELSE @]
    /\ net' = Tail(net)
    /\ ret' = [op |-> "sendChatMessage", outcome |-> outcome,
               alert |-> IF outcome = "failed" THEN Some("Fehler") ELSE Null]
    /\ UNCHANGED <<now, tz, store, calls, remote>>

-----------------------------------------------------------------------------
(* The goals of the local store, with createGoal calls that may overlap *)

NoOp == [op |-> "none"]

\* the dashboard is not on screen: no data, no request
DashboardClosed ==
    /\ ui = [platform |-> "android", loading |-> TRUE, dashboardData |-> Null]
    /\ net = << >>
    /\ remote = NoRecords

InitGoals ==
    /\ now = 0
    /\ tz = UTCZone
    /\ store = EmptyStore
    /\ calls = [c \in Callers |-> Idle]
    /\ ret = NoOp
    /\ DashboardClosed

NextGoals ==
    \/ \E c \in Callers, goal \in GoalArgs : createGoalRead(c, goal)
    \/ \E c \in Callers : createGoalWrite(c)
    \/ getDashboard(todayISO)
    \/ Tick(12, 0)

SpecGoals == InitGoals /\ [][NextGoals]_vars

-----------------------------------------------------------------------------
(* The drink counters *)

DrinkDates == {0, 1}
DrinkCounts == {-2, 0, 3}

InitDrinks ==
    /\ now = 0
    /\ tz = UTCZone
    /\ store = EmptyStore
    /\ calls = [c \in Callers |-> Idle]
    /\ ret = NoOp
    /\ DashboardClosed

NextDrinks ==
    \E date \in DrinkDates, drink_type \in DrinkTypes, count \in DrinkCounts :
        updateDrink(date, drink_type, count)

SpecDrinks == InitDrinks /\ [][NextDrinks]_vars

-----------------------------------------------------------------------------
(* The weight entries and the progress over a window of days *)

WeightInputs == {800, 785}

\* the app starts at noon of some day, in some time zone, with nothing stored
InitProgress ==
    /\ now \in {DateOfISO(d) + 12 : d \in Days}
    /\ tz \in Zones
    /\ store = EmptyStore
    /\ calls = [c \in Callers |-> Idle]
    /\ ret = NoOp
    /\ DashboardClosed

NextProgress ==
    \/ \E date \in Days, weight \in WeightInputs :
          /\ date <= todayISO
          /\ Cardinality(DOMAIN getJSON(K.WEIGHTS, EmptyMap) \cup {date}) <= MaxEntries
          /\ addWeight(date, weight)
    \/ \E days \in 1..MaxWindow : getWeightProgress(days)

SpecProgress == InitProgress /\ [][NextProgress]_vars

-----------------------------------------------------------------------------
(* The achievements over the last days of a store that may have a history *)

\* the weight entries of the days in D, each recorded at noon of its day
History(D) == [d \in D |-> [id |-> <<"weight", DateOfISO(d) + 12>>, date |-> d, weight |-> 800]]

\* the day the run starts on; the days before it are history
StartDay == MaxDay - 1

Histories == {{}, 0..(StartDay - 1), 1..(StartDay - 1)}

\* the store is fresh or holds the weight entries of earlier days
InitAch ==
    /\ now = DateOfISO(StartDay) + 12
    /\ tz \in {z \in Zones : z.name \in {"UTC", "Berlin-fall"}}
    /\ \E D \in Histories :
          store = IF D = {} THEN EmptyStore ELSE setJSON(EmptyStore, K.WEIGHTS, History(D))
    /\ calls = [c \in Callers |-> Idle]
    /\ ret = NoOp
    /\ DashboardClosed

WaterCounts == {9, 10, 12}

NextAch ==
    \/ addWeight(todayISO, 800)
    \/ \E count \in WaterCounts : updateDrink(todayISO, "wasser", count)
    \/ updatePills(todayISO, [morning_taken |-> TRUE])
    \/ computeAchievementsAndStats
    \/ Tick(24, MaxDay)

SpecAch == InitAch /\ [][NextAch]_vars

-----------------------------------------------------------------------------
(* The store adapter over texts: getJSON and setJSON on two keys of a      *)
(* storage that may hold texts the adapter has not written (left by        *)
(* another version of the app, or damaged)                                 *)

StoreKeys == {K.PILLS, K.GOALS}

\* the fallbacks the record managers pass: {} and []
Fallbacks == {JObj(<< >>), JArr(<< >>)}

\* values written: every type, the falsy values, a string that needs
\* escaping and one that reads like a literal, nested arrays and objects
JSONValues ==
    { JNull, JBool(TRUE), JBool(FALSE), JNum(0), JNum(-1), JNum(105),
      JStr(<< >>), JStr(<<"a", Quote>>), JStr(<<"n", "u", "l", "l">>),
      JArr(<< >>), JArr(<<JNum(0), JNull>>), JObj(<< >>),
      JObj(<< <<<<"a">>, JArr(<<JBool(FALSE)>>)>>, <<<<"b">>, JStr(<<Backslash>>)>> >>) }

\* texts that are not JSON: the empty text, truncated and malformed texts
InvalidTexts ==
    { << >>, <<"{">>, <<"n", "u", "l">>, <<"0", "1">>, <<"[", "0", ",", "]">>,
      <<"u", "n", "d", "e", "f", "i", "n", "e", "d">>, <<Quote, "a">>,
      <<"{", Quote, "a", Quote, "}">> }

InitStore ==
    /\ now = 0
    /\ tz = UTCZone
    /\ \E keys \in SUBSET StoreKeys : store \in [keys -> InvalidTexts]
    /\ calls = [c \in Callers |-> Idle]
    /\ ret = NoOp
    /\ DashboardClosed

NextStore ==
    \/ \E key \in StoreKeys, fallback \in Fallbacks : getJSONText(key, fallback)
    \/ \E key \in StoreKeys, value \in JSONValues : setJSONText(key, value)

SpecStore == InitStore /\ [][NextStore]_vars

-----------------------------------------------------------------------------
(* The record writes and the recomputation of one day, each of which may   *)
(* end with the rejection of a write by the storage                        *)

InitWrites ==
    /\ now = 12
    /\ tz = UTCZone
    /\ store = EmptyStore
    /\ calls = [c \in Callers |-> Idle]
    /\ ret = NoOp
    /\ DashboardClosed

NextWrites ==
    \/ \E weight \in WeightInputs : addWeight(todayISO, weight)
    \/ \E weight \in WeightInputs : addWeightFails(todayISO, weight)
    \/ \E count \in WaterCounts : updateDrink(todayISO, "wasser", count)
    \/ \E count \in WaterCounts : updateDrinkFails(todayISO, "wasser", count)
    \/ updatePills(todayISO, [morning_taken |-> TRUE])
    \/ updatePillsFails(todayISO, [morning_taken |-> TRUE])
    \/ computeAchievementsAndStats
    \/ \E write \in {1, 2} : computeAchievementsAndStatsFails(write)

SpecWrites == InitWrites /\ [][NextWrites]_vars

-----------------------------------------------------------------------------
(* The dashboard from the moment it is mounted: the effect on selectedDate *)
(* has issued fetchDashboardData()                                         *)

Platforms == {"android", "web"}

InitDash ==
    /\ now = 12
    /\ tz = UTCZone
    /\ store = EmptyStore
    /\ calls = [c \in Callers |-> Idle]
    /\ ret = NoOp
    /\ \E platform \in Platforms :
          ui = [platform |-> platform, loading |-> TRUE, dashboardData |-> Null]
    /\ net = fetchDashboardData(<< >>, "mount")
    /\ remote = NoRecords

NextDash ==
    \/ onRefresh
    \/ \E increment \in BOOLEAN : updateDrinkCount("wasser", increment)
    \/ updateSpecialDrink("abnehmkaffee")
    \/ updatePillTracking
    \/ \E weightInput \in WeightTexts : submitWeightEntry(weightInput)
    \/ \E i \in 1..MaxInFlight, outcome \in Outcomes : fetchDashboardDataSettled(i, outcome)
    \/ \E i \in 1..MaxInFlight, outcome \in Outcomes : updateDrinkSettled(i, outcome)
    \/ \E i \in 1..MaxInFlight, outcome \in Outcomes : updatePillTrackingSettled(i, outcome)
    \/ \E i \in 1..MaxInFlight, outcome \in Outcomes : submitWeightEntrySettled(i, outcome)

SpecDash == InitDash /\ [][NextDash]_vars

-----------------------------------------------------------------------------
(* The three collections keyed by date, written by updatePills, updateDrink *)
(* and addWeight for two dates                                              *)

\* the patches Partial<PillTracking> allows: any of the four fields of a
\* record, none of them included
PillPatches ==
    { << >>, [morning_taken |-> TRUE], [evening_taken |-> TRUE],
      [morning_taken |-> FALSE, evening_taken |-> TRUE],
      [id |-> <<"pill", -1>>], [date |-> 1] }

InitRecords ==
    /\ now = 12
    /\ tz = UTCZone
    /\ store = EmptyStore
    /\ calls = [c \in Callers |-> Idle]
    /\ ret = NoOp
    /\ DashboardClosed

NextRecords ==
    \/ \E date \in DrinkDates, updates \in PillPatches : updatePills(date, updates)
    \/ \E date \in DrinkDates : updateDrink(date, "wasser", 3)
    \/ \E date \in DrinkDates, weight \in WeightInputs : addWeight(date, weight)

SpecRecords == InitRecords /\ [][NextRecords]_vars

-----------------------------------------------------------------------------
(* The weight entries of a few days and the queries for a range of dates *)

RangeDays == 0..3

InitRange ==
    /\ now = DateOfISO(3) + 12
    /\ tz = UTCZone
    /\ store = EmptyStore
    /\ calls = [c \in Callers |-> Idle]
    /\ ret = NoOp
    /\ DashboardClosed

NextRange ==
    \/ \E date \in RangeDays, weight \in WeightInputs : addWeight(date, weight)
    \/ \E startISO \in RangeDays, endISO \in RangeDays :
          getWeightRangeCalled(startISO, endISO)

SpecRange == InitRange /\ [][NextRange]_vars

-----------------------------------------------------------------------------
(* The offline responder on messages of a few words *)

MaxWords == 2

ChatWords ==
    { <<"W", "a", "s", "s", "e", "r">>,
      <<"t", "r", "i", "n", "k", "e", "n">>,
      <<"R", "E", "Z", "E", "P", "T", "E">>,
      <<"R", "e", "z", "e", "p", "t">>,
      <<"G", "e", "w", "i", "c", "h", "t">>,
      <<"a", "b", "n", "e", "h", "m", "e", "n">>,
      <<"H", "a", "l", "l", "o">>,
      <<"W", "a", "s", "s", "e">>,
      <<"T", "r", "i", "n", "k", "e", "n">>,
      <<"A", "B", "N", "E", "H", "M", "E", "N">> }

\* the words separated by blanks
RECURSIVE Sentence(_)
Sentence(ws) ==
    IF ws = << >> THEN << >>
    ELSE IF Len(ws) = 1 THEN ws[1]
    ELSE ws[1] \o <<" ">> \o Sentence(Tail(ws))

\* "Wie viel Wasser soll ich trinken?"
WaterQuestion ==
    <<"W", "i", "e", " ", "v", "i", "e", "l", " ", "W", "a", "s", "s", "e",
      "r", " ", "s", "o", "l", "l", " ", "i", "c", "h", " ", "t", "r", "i",
      "n", "k", "e", "n", "?">>

ChatMessages ==
    {WaterQuestion}
    \cup UNION {{Sentence(ws) : ws \in [1..n -> ChatWords]} : n \in 0..MaxWords}

InitChat ==
    /\ now = 12
    /\ tz = UTCZone
    /\ store = EmptyStore
    /\ calls = [c \in Callers |-> Idle]
    /\ ret = NoOp
    /\ DashboardClosed

NextChat == \E message \in ChatMessages : sendChat(message)

SpecChat == InitChat /\ [][NextChat]_vars

-----------------------------------------------------------------------------
(* Every write operation of the store, on one day and with few inputs *)

MaxReminders == 1
MaxSaved == 1

\* the ids that are stored in a list, and one that is not
IdsOf(list, prefix) == {list[i].id : i \in DOMAIN list} \cup {<<prefix, -1>>}

InitFrame ==
    /\ now = 12
    /\ tz = UTCZone
    /\ store = EmptyStore
    /\ calls = [c \in Callers |-> Idle]
    /\ ret = NoOp
    /\ DashboardClosed

NextFrame ==
    \/ updatePills(todayISO, [morning_taken |-> TRUE])
    \/ updateDrink(todayISO, "wasser", 3)
    \/ addWeight(todayISO, 800)
    \/ createGoalRead(1, [goal_type |-> "fixed_weight"])
    \/ createGoalWrite(1)
    \/ /\ Len(getReminders) < MaxReminders
       /\ createReminder([reminder_type |-> "pills_morning", time |-> "08:00",
                          is_enabled |-> TRUE])
    \/ \E id \in IdsOf(getReminders, "rem") : toggleReminder(id)
    \/ \E id \in IdsOf(getReminders, "rem") : updateReminderTime(id, "20:00")
    \/ \E id \in IdsOf(getReminders, "rem") : deleteReminder(id)
    \/ updateAppSettings([theme |-> "dark"])
    \/ /\ Len(getJSON(K.SAVED_MSGS, << >>)) < MaxSaved
       /\ saveMessage([original_message |-> "q", ai_response |-> "a",
                       category |-> "tips", title |-> "t", tags |-> << >>])
    \/ \E id \in IdsOf(getJSON(K.SAVED_MSGS, << >>), "msg") :
          deleteSavedMessageLocal(id)
    \/ computeAchievementsAndStats

SpecFrame == InitFrame /\ [][NextFrame]_vars

-----------------------------------------------------------------------------
(* The date navigation from the moment the dashboard is mounted, over the  *)
(* modelled days and in every modelled time zone                           *)

InitNav ==
    /\ now = 12
    /\ tz \in Zones
    /\ store = EmptyStore
    /\ calls = [c \in Callers |-> Idle]
    /\ ret = NoOp
    /\ ui = [platform |-> "android", loading |-> TRUE, dashboardData |-> Null,
             selectedDate |-> todayISO]
    /\ net = fetchDashboardData(<< >>, "mount")
    /\ remote = NoRecords

NextNav ==
    \/ navigateToNextDay
    \/ navigateToPreviousDay
    \/ navigateToToday
    \/ \E i \in 1..MaxInFlight, outcome \in Outcomes : fetchDashboardDataSettled(i, outcome)
    \/ Tick(12, MaxDay)

SpecNav == InitNav /\ [][NextNav]_vars

-----------------------------------------------------------------------------
(* The assistant chat from the moment the screen is mounted.  Under        *)
(* SpecAssistantLive every request is answered or fails in the end.        *)

ChatInputs == {<< >>, <<" ">>, <<"h", "i">>, <<" ", "o", "k", "\n">>}

InitAssistant ==
    /\ now = 12
    /\ tz = UTCZone
    /\ store = EmptyStore
    /\ calls = [c \in Callers |-> Idle]
    /\ ret = NoOp
    /\ ui = [platform |-> "android", chatMessages |-> << >>, chatInput |-> << >>,
             chatSessionId |-> Null, chatLoading |-> FALSE]
    /\ net = << >>
    /\ remote = NoRecords

SettleAssistant ==
    \E outcome \in Outcomes, response \in {<<"t", "i", "p">>} :
        sendChatMessageSettled(outcome, response)

NextAssistant ==
    \/ \E text \in ChatInputs : setChatInput(text)
    \/ sendChatMessage
    \/ SettleAssistant

SpecAssistant == InitAssistant /\ [][NextAssistant]_vars

SpecAssistantLive == SpecAssistant /\ WF_vars(SettleAssistant)

-----------------------------------------------------------------------------
(* Claims about the goals *)

ActiveIndices(goals) == {i \in DOMAIN goals : goals[i].is_active}

\* C1: after any sequence of createGoal calls, once a call has completed,
\* exactly one stored goal is active and it is the goal of the most recent
\* call (the last of the list), whatever is_active the caller passed.
C1_ExactlyOneActiveNewest ==
    Len(getGoals) > 0 => ActiveIndices(getGoals) = {Len(getGoals)}

\* C2: the persisted goals list never holds more than one active goal, also
\* when createGoal calls overlap (each reads the list and writes it later).
C2_AtMostOneActive == Cardinality(ActiveIndices(getGoals)) <= 1

\* C2 witness: a call wrote the list from a snapshot that another call had
\* overtaken, onto a list that had an active goal, and one goal is active
C2_Witness ==
    /\ ret.op = "createGoal"
    /\ ret.stale
    /\ Len(getGoals) >= 2
    /\ Cardinality(ActiveIndices(getGoals)) = 1

-----------------------------------------------------------------------------
(* Claims about the weight progress *)

Weights == getJSON(K.WEIGHTS, EmptyMap)

\* C6: for every window length d and every set of weight records,
\* getWeightProgress(d) reports entries_found <= d, and total_change = 0 and
\* average_daily_change = 0 whenever entries_found <= 1.
C6_EntriesWithinWindow ==
    ret.op = "getWeightProgress" =>
        /\ ret.result.summary.entries_found <= ret.days
        /\ ret.result.summary.entries_found <= 1 =>
              /\ ret.result.summary.total_change = 0
              /\ ret.result.summary.average_daily_change = 0

\* C7: with 80.0 kg on day 1 and 78.5 kg on day 7 of the 7-day window and no
\* other entry, getWeightProgress(7) reports total_change = -1.5 (-15 tenths)
\* and average_daily_change = -0.25 (-25 hundredths).
C7_ScenarioTwoEntries ==
    ( /\ ret.op = "getWeightProgress"
      /\ ret.days = 7
      /\ DOMAIN Weights = {todayISO - 6, todayISO}
      /\ Weights[todayISO - 6].weight = 800
      /\ Weights[todayISO].weight = 785 )
    => /\ ret.result.summary.total_change = -15
       /\ ret.result.summary.average_daily_change = -25

-----------------------------------------------------------------------------
(* Claims about the drink counters *)

Drinks == getJSON(K.DRINKS, EmptyMap)

\* C8: updateDrink(date, type, c) leaves the stored counter at max(0, c),
\* after a first call and after the same call repeated right after it, and
\* no stored drink counter is ever negative.
C8_UpdateDrinkClamped ==
    /\ ret.op = "updateDrink" =>
          /\ ret.date \in DOMAIN Drinks
          /\ Drinks[ret.date].drinks[ret.drink_type] = Max(0, ret.count)
    /\ \A d \in DOMAIN Drinks : \A t \in DrinkTypes : Drinks[d].drinks[t] >= 0

\* C8 witness: the same update with a negative count ran twice in a row, the
\* counter is 0 and another counter of that day is positive
C8_Witness ==
    /\ ret.op = "updateDrink"
    /\ ret.again
    /\ ret.count < 0
    /\ Drinks[ret.date].drinks[ret.drink_type] = 0
    /\ \E t \in DrinkTypes : Drinks[ret.date].drinks[t] > 0

-----------------------------------------------------------------------------
(* Claims about the achievements and the user stats *)

Catalog == getJSON(K.ACHIEVEMENTS, baseAchievements)
Computed == ret.op = "computeAchievementsAndStats"
Badge(ach, badge_type) == ach[CHOOSE i \in DOMAIN ach : ach[i].badge_type = badge_type]
HasStamp(a) == "unlocked_at" \in DOMAIN a
\* the water counter stored for the day d
WaterOf(d) == IF d \in DOMAIN Drinks THEN Drinks[d].drinks["wasser"] ELSE 0

\* C3 (as stated): every achievement of the persisted catalog, water_10
\* included, has current_count <= requirement_count.
C3_AllCountsWithinRequirement ==
    \A i \in DOMAIN Catalog : Catalog[i].current_count <= Catalog[i].requirement_count

\* C3 (amended): first_weight and seven_days of the persisted catalog have
\* current_count <= requirement_count; water_10 is not capped: after a
\* recomputation its current_count is the water counter of that day.
C3_CappedCountsWithinRequirement ==
    /\ \A i \in DOMAIN Catalog :
          Catalog[i].badge_type \in {"first_weight", "seven_days"} =>
              Catalog[i].current_count <= Catalog[i].requirement_count
    /\ Computed => Badge(Catalog, "water_10").current_count = WaterOf(ret.today)

\* C3 witness: a recomputation over more than 7 weight entries left
\* seven_days at 7, and water_10 above its requirement
C3_Witness ==
    /\ Computed
    /\ Cardinality(DOMAIN Weights) > 7
    /\ Badge(Catalog, "seven_days").current_count = 7
    /\ Badge(Catalog, "water_10").current_count > 10

\* C4: each achievement of the persisted catalog is unlocked if and only if
\* its current_count has reached its requirement_count.
C4_UnlockedIffRequirementMet ==
    \A i \in DOMAIN Catalog :
        Catalog[i].is_unlocked <=>
            (Catalog[i].current_count >= Catalog[i].requirement_count)

\* C4 witness: after a recomputation water_10 stands exactly at its
\* requirement and is unlocked, while seven_days has progress and is locked
C4_Witness ==
    /\ Computed
    /\ Badge(Catalog, "water_10").current_count = 10
    /\ Badge(Catalog, "water_10").is_unlocked
    /\ Badge(Catalog, "seven_days").current_count \in 1..6
    /\ ~Badge(Catalog, "seven_days").is_unlocked

\* what one step may do to the stamp of the achievement at index i
StampStep(i) ==
    /\ HasStamp(Catalog[i]) =>
          /\ HasStamp(Catalog'[i])
          /\ Catalog'[i].unlocked_at = Catalog[i].unlocked_at
    /\ (~HasStamp(Catalog[i]) /\ HasStamp(Catalog'[i])) =>
          /\ ret'.op = "computeAchievementsAndStats"
          /\ Catalog'[i].is_unlocked
          /\ Catalog'[i].unlocked_at = now
    /\ Catalog'[i].is_unlocked => HasStamp(Catalog'[i])

\* C5: over record writes, day changes and recomputations, unlocked_at is
\* absent until the first recomputation that finds the achievement unlocked,
\* that recomputation stamps it with the current time, and no later step
\* changes or removes the stamp.
C5_UnlockedAtSetOnce == [][\A i \in DOMAIN Catalog : StampStep(i)]_vars

\* C5 witness: a recomputation on a later day found a stamped achievement
\* still unlocked and another stamped one locked again, both stamps kept
C5_Witness ==
    /\ Computed
    /\ ret.today = todayISO
    /\ \E i \in DOMAIN Catalog :
          /\ Catalog[i].is_unlocked
          /\ HasStamp(Catalog[i])
          /\ ISOOfDate(Catalog[i].unlocked_at) < todayISO
    /\ \E i \in DOMAIN Catalog :
          /\ ~Catalog[i].is_unlocked
          /\ HasStamp(Catalog[i])
          /\ ISOOfDate(Catalog[i].unlocked_at) < todayISO

\* C9 (as stated): with no weight entry recorded, a recomputation yields
\* first_weight locked, total_xp = 0, current_level = 1 and a streak of 0,
\* whatever the pill and drink records contain.
C9_NoWeightsZeroXp ==
    (Computed /\ DOMAIN Weights = {}) =>
        /\ ~Badge(ret.result.achievements, "first_weight").is_unlocked
        /\ ret.result.stats.total_xp = 0
        /\ ret.result.stats.current_level = 1
        /\ ret.result.stats.current_streak_days = 0

\* C9 (amended): with no weight entry recorded, a recomputation yields
\* first_weight locked, current_level = 1 and a streak of 0, whatever the pill
\* and drink records contain; total_xp is 0 when the water counter of the day
\* is below 10 and 120, the reward of water_10, when it is 10 or more.
C9_NoWeightsXpFromWaterOnly ==
    (Computed /\ DOMAIN Weights = {}) =>
        /\ ~Badge(ret.result.achievements, "first_weight").is_unlocked
        /\ ret.result.stats.total_xp = (IF WaterOf(ret.today) >= 10 THEN 120 ELSE 0)
        /\ ret.result.stats.current_level = 1
        /\ ret.result.stats.current_streak_days = 0

\* C9 witness: a recomputation without any weight entry, with a pill taken
\* and 10 or more glasses of water on that day, gave 120 xp
C9_Witness ==
    /\ Computed
    /\ DOMAIN Weights = {}
    /\ DOMAIN getJSON(K.PILLS, EmptyMap) # {}
    /\ WaterOf(ret.today) >= 10
    /\ ret.result.stats.total_xp = 120
    /\ ret.result.stats.pills_taken_total > 0

\* C10: after a recomputation seven_days.current_count is the smaller of 7
\* and the number of distinct dates with a weight entry, and seven_days is
\* unlocked exactly when that number is at least 7.
C10_SevenDaysCount ==
    Computed =>
        LET a == Badge(ret.result.achievements, "seven_days")
            n == Cardinality(DOMAIN Weights)
        IN /\ a.current_count = (IF n < 7 THEN n ELSE 7)
           /\ a.is_unlocked <=> (n >= 7)
           /\ Badge(Catalog, "seven_days") = a

\* C10 witness: entries for the day of the recomputation and the 6 days
\* before it, 7 in all, gave current_count = 7 and unlocked
C10_Witness ==
    /\ Computed
    /\ DOMAIN Weights = (ret.today - 6)..ret.today
    /\ Badge(Catalog, "seven_days").current_count = 7
    /\ Badge(Catalog, "seven_days").is_unlocked

\* C11: after a recomputation water_10.current_count is the water counter
\* stored for that day, 0 when the day has no drink record, and water_10 is
\* unlocked exactly when that counter is at least 10; a counter of 12 gives
\* is_unlocked = true and current_count = 12.
C11_WaterTenFromTodaysCounter ==
    Computed =>
        LET a == Badge(ret.result.achievements, "water_10")
            n == IF ret.today \in DOMAIN Drinks
                 THEN Drinks[ret.today].drinks["wasser"] ELSE 0
        IN /\ a.current_count = n
           /\ a.is_unlocked <=> (n >= 10)
           /\ n = 12 => (a.is_unlocked /\ a.current_count = 12)
           /\ Badge(Catalog, "water_10") = a

\* C11 witness: a recomputation on a day with 12 glasses of water, after a
\* day with 9, gave water_10 unlocked with current_count = 12
C11_Witness ==
    /\ Computed
    /\ DOMAIN Drinks = {ret.today - 1, ret.today}
    /\ Drinks[ret.today - 1].drinks["wasser"] = 9
    /\ Drinks[ret.today].drinks["wasser"] = 12
    /\ Badge(Catalog, "water_10").is_unlocked
    /\ Badge(Catalog, "water_10").current_count = 12

\* the sum of xp_reward over the achievements of ach at the indices in I that
\* are unlocked
RECURSIVE UnlockedXp(_, _)
UnlockedXp(ach, I) ==
    IF I = {} THEN 0
    ELSE LET i == CHOOSE x \in I : TRUE
         IN (IF ach[i].is_unlocked THEN ach[i].xp_reward ELSE 0)
            + UnlockedXp(ach, I \ {i})

\* C12: after a recomputation stats.total_xp is the sum of xp_reward over
\* exactly the returned achievements that are unlocked, and
\* stats.current_level is floor(total_xp / 500) + 1, at least 1; the stats
\* persisted are the stats returned.
C12_TotalXpAndLevel ==
    Computed =>
        LET ach == ret.result.achievements
            stats == ret.result.stats
        IN /\ stats.total_xp = UnlockedXp(ach, DOMAIN ach)
           /\ \E q \in 0..stats.total_xp :
                 /\ 500 * q <= stats.total_xp
                 /\ stats.total_xp < 500 * (q + 1)
                 /\ stats.current_level = q + 1
           /\ stats.current_level >= 1
           /\ getJSON(K.USER_STATS, << >>) = stats

\* C12 witness: a recomputation found first_weight and water_10 unlocked and
\* seven_days locked, and gave 50 + 120 = 170 xp at level 1
C12_Witness ==
    /\ Computed
    /\ Badge(Catalog, "first_weight").is_unlocked
    /\ Badge(Catalog, "water_10").is_unlocked
    /\ ~Badge(Catalog, "seven_days").is_unlocked
    /\ ret.result.stats.total_xp = 170
    /\ ret.result.stats.current_level = 1

\* the number of consecutive days, walking back from day d, that are in W
RECURSIVE RunEndingAt(_, _)
RunEndingAt(d, W) == IF d \in W THEN 1 + RunEndingAt(d - 1, W) ELSE 0

\* C13: after a recomputation stats.current_streak_days is the length of the
\* longest run of consecutive calendar days ending on that day, capped at
\* 365, that all have a weight entry, hence 0 when the day has no entry; and
\* stats.longest_streak equals stats.current_streak_days.
C13_StreakIsRunEndingToday ==
    Computed =>
        LET stats == ret.result.stats
            run == RunEndingAt(ret.today, DOMAIN Weights)
        IN /\ stats.current_streak_days = (IF run < StreakLimit THEN run ELSE StreakLimit)
           /\ ret.today \notin DOMAIN Weights => stats.current_streak_days = 0
           /\ stats.longest_streak = stats.current_streak_days

\* C14: after a completed addWeight or updateDrink the persisted achievements
\* and user stats reflect the records written so far: first_weight is
\* unlocked when there is a weight entry, water_10 counts the water of today,
\* and the stats count the weight entries.
C14_DerivedDataCurrent ==
    ret.op \in {"addWeight", "updateDrink"} =>
        /\ Badge(getAchievements, "first_weight").is_unlocked <=> (DOMAIN Weights # {})
        /\ Badge(getAchievements, "water_10").current_count = WaterOf(todayISO)
        /\ getUserStats.weight_entries_total = Cardinality(DOMAIN Weights)

-----------------------------------------------------------------------------
(* Claims about the store adapter *)

\* what a getJSON step returns and leaves
GetStep ==
    ret'.op = "getJSON" =>
        LET key == ret'.key
            result == ret'.result
        IN /\ store' = store
           /\ key \notin DOMAIN store => result = ret'.fallback
           /\ (key \in DOMAIN store /\ store[key] \in InvalidTexts) =>
                  result = ret'.fallback
           /\ \A v \in JSONValues :
                  (key \in DOMAIN store /\ store[key] = stringify(v)) => result = v
           /\ result \in JSONValues \cup Fallbacks
           /\ (ret.op = "setJSON" /\ ret.key = key) => result = ret.value

\* what a setJSON step stores and leaves
SetStep ==
    ret'.op = "setJSON" =>
        LET key == ret'.key
        IN /\ DOMAIN store' = (DOMAIN store) \cup {key}
           /\ store'[key] = stringify(ret'.value)
           /\ \A k \in (DOMAIN store) \ {key} : store'[k] = store[k]

\* C15: getJSON(key, fallback) returns fallback when the key is absent or its
\* text is not valid JSON, never an error, and otherwise the decoded value;
\* setJSON(key, v) replaces the text of key and of no other key; getJSON(key, f)
\* right after setJSON(key, v) returns v, for every JSON value v.
C15_GetAfterSetReturnsValue == [][GetStep /\ SetStep]_vars

\* C15 witness: getJSON(key, {}) right after setJSON(key, null), on a key
\* that held an invalid text before, returned null, while the other key
\* still holds an invalid text
C15_Witness ==
    /\ ret.op = "getJSON"
    /\ ret.after = Some([key |-> ret.key, value |-> JNull])
    /\ ret.fallback = JObj(<< >>)
    /\ ret.result = JNull
    /\ \E k \in DOMAIN store : k # ret.key /\ store[k] \in InvalidTexts

-----------------------------------------------------------------------------
(* Claims about operations whose write fails *)

HasFailed == "error" \in DOMAIN ret
\* the store s without the key k
Without(s, k) == [x \in (DOMAIN s) \ {k} |-> s[x]]

-----------------------------------------------------------------------------
(* Claims about the dashboard *)

WriteHandlers ==
    {"updatePillTracking", "updateSpecialDrink", "updateDrinkCount", "submitWeightEntry"}

\* C17: when the request of a pill, drink or weight handler of the dashboard
\* ends with a status other than 2xx or with a transport failure, the handler
\* shows the user an error alert.
C17_FailedRequestAlerted ==
    (ret.op \in WriteHandlers /\ ret.outcome \in {"status", "failed"}) =>
        ret.alert = Some("Fehler")

\* the stored entity a request in flight works on: the record it writes, or
\* for the re-read that follows a write the record just written
Entity(req) == IF req.api = "dashboard" THEN req.after ELSE req.api

\* C18: no two requests in flight work on the same stored entity: a pill,
\* drink or weight update is in flight only when no earlier update of that
\* entity and no re-read following one is.
C18_OneOperationInFlightPerEntity ==
    \A i, j \in DOMAIN net :
        (i < j /\ Entity(net[i]) \in {"pills", "drinks", "weight"}) =>
            Entity(net[j]) # Entity(net[i])

\* C27: a tap on the increment button of a drink counter whose request is
\* answered with 2xx leaves the stored count of the selected date and drink
\* type one above the count stored before, whatever other requests and
\* re-reads were in flight.
C27_TapRaisesStoredCountByOne ==
    (ret.op = "updateDrinkCount" /\ ret.outcome = "ok" /\ ret.request.increment) =>
        /\ ret.request.count = ret.before + 1
        /\ remote[ret.request.drink_type] = ret.before + 1

-----------------------------------------------------------------------------
(* Claims about the collections keyed by date *)

Pills == getJSON(K.PILLS, EmptyMap)
PillFields == {"id", "date", "morning_taken", "evening_taken"}

\* what an updatePills step does to the pill records and leaves elsewhere
UpdatePillsStep ==
    ret'.op = "updatePills" =>
        LET date == ret'.date
            patch == ret'.updates
        IN /\ DOMAIN Pills' = (DOMAIN Pills) \cup {date}
           /\ DOMAIN Pills'[date] = PillFields
           /\ \A f \in DOMAIN patch : Pills'[date][f] = patch[f]
           /\ date \in DOMAIN Pills =>
                 \A f \in PillFields \ DOMAIN patch : Pills'[date][f] = Pills[date][f]
           /\ date \notin DOMAIN Pills =>
                 /\ \A f \in {"morning_taken", "evening_taken"} \ DOMAIN patch :
                       Pills'[date][f] = FALSE
                 /\ "date" \notin DOMAIN patch => Pills'[date].date = date
           /\ \A d \in (DOMAIN Pills) \ {date} : Pills'[d] = Pills[d]
           /\ Drinks' = Drinks
           /\ Weights' = Weights
           /\ ret'.result = Pills'[date]

\* C19: updatePills(date, patch) is a merging upsert: the record stored for
\* date takes the patch's values for the fields the patch names and keeps
\* every other field, its id among them; without a record before, the fields
\* not named start from morning_taken = false, evening_taken = false; the
\* records of all other dates are unchanged.
C19_UpdatePillsMerges == [][UpdatePillsStep]_vars

\* C19 witness: a record with the morning pill taken was patched with
\* {evening_taken: true}: both flags are set, while the other date keeps a
\* record with its own flags
C19_Witness ==
    /\ ret.op = "updatePills"
    /\ ret.updates = [evening_taken |-> TRUE]
    /\ ret.result.morning_taken
    /\ ret.result.evening_taken
    /\ ret.result.id = genId("pill")
    /\ \E d \in DOMAIN Pills : d # ret.date /\ ~Pills[d].evening_taken

\* C20: each collection keyed by date holds at most one record per date,
\* every record's date field is the key it is stored under, and after
\* addWeight the weight stored for its date is the one just written.
C20_OneRecordPerDate ==
    /\ \A coll \in {Pills, Drinks, Weights} :
          /\ \A d \in DOMAIN coll : coll[d].date = d
          /\ \A d, e \in DOMAIN coll : coll[d].date = coll[e].date => d = e
    /\ ret.op = "addWeight" =>
          /\ ret.date \in DOMAIN Weights
          /\ Weights[ret.date].weight = ret.weight

-----------------------------------------------------------------------------
(* Claims about the range of weight entries *)

\* C21: getWeightRange(start, end) returns exactly the stored weight entries
\* whose date d satisfies start <= d <= end, both boundaries included, in
\* strictly ascending order of date, and the empty list when start > end.
C21_RangeInclusiveAscending ==
    ret.op = "getWeightRange" =>
        LET result == ret.result
            within == {d \in DOMAIN Weights : ret.startISO <= d /\ d <= ret.endISO}
        IN /\ {result[i] : i \in DOMAIN result} = {Weights[d] : d \in within}
           /\ Len(result) = Cardinality(within)
           /\ \A i, j \in DOMAIN result : i < j => result[i].date < result[j].date
           /\ ret.startISO > ret.endISO => result = << >>

\* C21 witness: a query whose two boundaries both have an entry returned
\* them first and last, with an entry between them, and left out a stored
\* entry after the end
C21_Witness ==
    /\ ret.op = "getWeightRange"
    /\ Len(ret.result) = 3
    /\ ret.result[1].date = ret.startISO
    /\ ret.result[3].date = ret.endISO
    /\ \E d \in DOMAIN Weights : d > ret.endISO

-----------------------------------------------------------------------------
(* Claims about the offline responder *)

\* whether the message, in lower case, contains the word
Has(word) == includes(toLowerCase(ret.message), word)
HasWater == Has(<<"w", "a", "s", "s", "e", "r">>) \/ Has(<<"t", "r", "i", "n", "k", "e", "n">>)
HasRecipe == Has(<<"r", "e", "z", "e", "p", "t", "e">>) \/ Has(<<"r", "e", "z", "e", "p", "t">>)
HasWeight ==
    Has(<<"g", "e", "w", "i", "c", "h", "t">>) \/ Has(<<"a", "b", "n", "e", "h", "m", "e", "n">>)

\* C22: sendChat answers with the response of the first keyword group, in the
\* order water, recipe, weight, that the lower-cased message matches, and
\* with the generic acknowledgement only when none matches; a message with a
\* water and a weight keyword gets the water response, and so does
\* "Wie viel Wasser soll ich trinken?".
C22_FirstMatchingGroupWins ==
    ret.op = "sendChat" =>
        LET response == ret.result.response
        IN /\ HasWater => response = "Trinke heute"
           /\ (~HasWater /\ HasRecipe) => response = "Leichtes Rezept"
           /\ (~HasWater /\ ~HasRecipe /\ HasWeight) =>
                 response = "Achte auf ein moderates Kaloriendefizit"
           /\ (response = "Danke") <=> (~HasWater /\ ~HasRecipe /\ ~HasWeight)
           /\ ret.message = WaterQuestion => response = "Trinke heute"
           /\ ret.message = Sentence(<<<<"G", "e", "w", "i", "c", "h", "t">>,
                                     <<"W", "a", "s", "s", "e", "r">>>>) =>
                 response = "Trinke heute"
           /\ ret.message = Sentence(<<<<"H", "a", "l", "l", "o">>,
                                     <<"W", "a", "s", "s", "e">>>>) =>
                 response = "Danke"
           /\ ret.message = Sentence(<<<<"a", "b", "n", "e", "h", "m", "e", "n">>,
                                     <<"R", "E", "Z", "E", "P", "T", "E">>>>) =>
                 response = "Leichtes Rezept"

\* C22 witness: the message "ABNEHMEN Trinken", which names a weight
\* keyword before a water keyword, got the water response
C22_Witness ==
    /\ ret.op = "sendChat"
    /\ ret.message = Sentence(<<<<"A", "B", "N", "E", "H", "M", "E", "N">>,
                              <<"T", "r", "i", "n", "k", "e", "n">>>>)
    /\ ret.result.response = "Trinke heute"

-----------------------------------------------------------------------------
(* Claims about what the recomputation depends on *)

\* the catalogs that differ from the base catalog in the stored progress
PriorCatalogs ==
    {[i \in DOMAIN baseAchievements |->
        [baseAchievements[i] EXCEPT !.current_count = c[i], !.is_unlocked = u[i]]] :
        c \in [DOMAIN baseAchievements -> {0, 12}],
        u \in [DOMAIN baseAchievements -> BOOLEAN]}

\* the progress fields of a catalog
ProgressOf(ach) ==
    [i \in DOMAIN ach |-> <<ach[i].badge_type, ach[i].current_count, ach[i].is_unlocked>>]

\* C23: a recomputation returns and persists the stats and the current_count
\* and is_unlocked values that a run on the same day computes from the same
\* pill, drink and weight records with any other stored progress of the
\* three achievements; the stored stats are not read.
C23_RecomputedFromRecordsOnly ==
    Computed /\ ~HasFailed =>
        /\ getUserStats = ret.result.stats
        /\ ProgressOf(Catalog) = ProgressOf(ret.result.achievements)
        /\ ret.today = todayISO => \A prior \in PriorCatalogs :
              LET other == Compute(Weights, Drinks, Pills, prior)
              IN /\ other.stats = ret.result.stats
                 /\ ProgressOf(other.achievements) = ProgressOf(ret.result.achievements)

\* C23 witness: a recomputation that found water_10 stored as unlocked and
\* left it locked, with the stats of a store that has weight entries
C23_Witness ==
    /\ Computed /\ ~HasFailed
    /\ "unlocked_at" \in DOMAIN Badge(ret.result.achievements, "water_10")
    /\ ~Badge(ret.result.achievements, "water_10").is_unlocked
    /\ ret.result.stats.total_xp = 50

\* C24: with the catalog of three achievements (rewards 50, 100 and 120) the
\* total_xp of the stats, returned or persisted, is a sum of some of the
\* three rewards, never more than 270, and current_level is 1.
C24_XpBoundedLevelOne ==
    LET Bounded(stats) ==
            /\ stats.total_xp \in {0, 50, 100, 120, 150, 170, 220, 270}
            /\ stats.total_xp <= 270
            /\ stats.current_level = 1
    IN /\ Bounded(getUserStats)
       /\ (Computed /\ ~HasFailed) => Bounded(ret.result.stats)

\* C24 witness: all three achievements are unlocked, the stats hold 270 xp
C24_Witness ==
    /\ Computed /\ ~HasFailed
    /\ \A i \in DOMAIN Catalog : Catalog[i].is_unlocked
    /\ getUserStats.total_xp = 270
    /\ getUserStats.current_level = 1

\* C25: across every step, first_weight and seven_days stay unlocked once
\* they are stored as unlocked, and the stored weight_entries_total does not
\* decrease (weight entries are overwritten, never deleted).
C25_UnlocksAndEntriesMonotone ==
    [][/\ \A badge \in {"first_weight", "seven_days"} :
             Badge(Catalog, badge).is_unlocked => Badge(Catalog, badge).is_unlocked'
       /\ getUserStats.weight_entries_total <= getUserStats.weight_entries_total'
       /\ Cardinality(DOMAIN Weights) <= Cardinality(DOMAIN Weights)']_vars

\* C25 witness: a recomputation on a later day than the one that unlocked
\* seven_days has kept it unlocked, with eight entries counted
C25_Witness ==
    /\ Computed /\ ~HasFailed /\ ret.today = todayISO
    /\ Badge(Catalog, "seven_days").is_unlocked
    /\ Badge(Catalog, "first_weight").is_unlocked
    /\ Badge(Catalog, "seven_days").unlocked_at < DateOfISO(todayISO)
    /\ getUserStats.weight_entries_total = 8

-----------------------------------------------------------------------------
(* Claims about the keys an operation writes *)

StorageKeys ==
    {"db_pills", "db_drinks", "db_weights", "db_goals", "db_reminders",
     "db_settings", "db_saved_messages", "db_user_stats", "db_achievements"}

\* the keys an operation may write
OwnKeys(op) ==
    CASE op = "updatePills" -> {"db_pills"}
      [] op = "updateDrink" -> {"db_drinks"}
      [] op = "addWeight" -> {"db_weights"}
      [] op = "createGoal" -> {"db_goals"}
      [] op \in {"createReminder", "toggleReminder", "updateReminderTime",
                 "deleteReminder"} -> {"db_reminders"}
      [] op = "updateAppSettings" -> {"db_settings"}
      [] op \in {"saveMessage", "deleteSavedMessageLocal"} -> {"db_saved_messages"}
      [] op = "computeAchievementsAndStats" -> {"db_achievements", "db_user_stats"}
      [] OTHER -> {}

\* C26: a step of a local write operation changes no storage key but its
\* own: pills, drinks, weights, goals, reminders, settings and saved
\* messages for their operations, achievements and user stats for the
\* recomputation; the store holds no key outside the nine of K.
C26_WritesOwnKeyOnly ==
    [][/\ DOMAIN store' \subseteq StorageKeys
       /\ \A key \in StorageKeys \ OwnKeys(ret'.op) :
             /\ key \in DOMAIN store <=> key \in DOMAIN store'
             /\ key \in DOMAIN store => store'[key] = store[key]]_vars

\* C26 witness: every key is stored, and the last operation has removed the
\* only saved message
C26_Witness ==
    /\ DOMAIN store = StorageKeys
    /\ ret.op = "deleteSavedMessageLocal"
    /\ store["db_saved_messages"] = << >>
    /\ store["db_reminders"] # << >>

-----------------------------------------------------------------------------
(* Claims about the date navigation *)

\* C28: selectedDate is never after today, and navigateToNextDay moves it on
\* by exactly one day when the next day is not after today and leaves it as
\* it is otherwise.
C28_NavigationStaysUpToToday ==
    /\ ui.selectedDate <= todayISO
    /\ ret.op = "navigateToNextDay" =>
          ui.selectedDate = IF ret.before + 1 <= ret.today THEN ret.before + 1
                            ELSE ret.before

-----------------------------------------------------------------------------
(* Claims about the assistant chat *)

\* C29: with sends starting only while chatLoading is false, every assistant
\* message of the transcript comes right after the user message that
\* produced it: the first message is not the assistant's, no two assistant
\* messages are adjacent, also after sends that failed or were answered
\* with a status other than 2xx.
C29_AssistantFollowsItsUserMessage ==
    LET messages == ui.chatMessages
    IN \A i \in DOMAIN messages :
          ~messages[i].is_user =>
              /\ i > 1
              /\ messages[i - 1].is_user
              /\ messages[i - 1].message = messages[i].producedBy

\* C29 witness: an answered send after one that failed: the transcript
\* holds two user messages and then the assistant's message
C29_Witness ==
    /\ Len(ui.chatMessages) = 3
    /\ ui.chatMessages[1].is_user /\ ui.chatMessages[2].is_user
    /\ ~ui.chatMessages[3].is_user
    /\ ui.chatMessages[1].message # ui.chatMessages[2].message
    /\ ~ui.chatLoading

\* C30: chatLoading set by sendChatMessage is false again in the end, once
\* the request has been answered with 2xx, with another status or has
\* failed; a sendChatMessage with an input that is empty after trimming
\* starts no request and leaves chatLoading and the transcript as they were.
C30_ChatLoadingEnds ==
    /\ ui.chatLoading ~> ~ui.chatLoading
    /\ [][/\ (ui.chatLoading /\ ~ui.chatLoading') => (net # << >> /\ net' = Tail(net))
          /\ (ret' # ret /\ ret'.op = "sendChatMessage" /\ ret'.outcome = "empty") =>
                /\ trim(ui.chatInput) = << >>
                /\ net' = net
                /\ ui'.chatLoading = ui.chatLoading
                /\ ui'.chatMessages = ui.chatMessages]_vars

\* C30 witness: a send that failed has ended with chatLoading false
C30_Witness ==
    /\ ret.op = "sendChatMessage" /\ ret.outcome = "failed"
    /\ ~ui.chatLoading /\ net = << >>
    /\ Len(ui.chatMessages) = 1

====
